---- MODULE Spec2Model ----
(***************************************************************************)
(* buffer-transpose: transposition of a row-major matrix held in a byte    *)
(* buffer, for 8-bit elements and for 1-bit bitmaps (src/src/index.ts).    *)
(*                                                                         *)
(* A buffer is a sequence of bytes (0..255); index i of the code is        *)
(* element i + 1 of the sequence.                                          *)
(***************************************************************************)
EXTENDS Integers, Sequences, FiniteSets

VARIABLES
    input,      \* the caller's buffer
    width,      \* the width argument
    height,     \* the height argument
    options,    \* the options argument
    phase,      \* "ready" | "loop" | "done" | "back"
    called,     \* the variant the dispatcher called ("none" before a call)
    result,     \* what the call returned or threw
    first,      \* the buffer the first call returned (kept for a second call)
    x,          \* transpose1BitPacked: outer loop variable
    y,          \* transpose1BitPacked: inner loop variable
    outputBitIndex, \* transpose1BitPacked: the output bit cursor
    output      \* transpose1BitPacked: the output buffer being filled

vars == <<input, width, height, options, phase, called, result, first,
          x, y, outputBitIndex, output>>

(***************************************************************************)
(* JavaScript primitives the code uses.                                    *)
(***************************************************************************)

\* Buffer.alloc(n): n zero bytes.
BufferAlloc(n) == [i \in 1..n |-> 0]

\* Math.ceil(n / 8) for a non-negative integer n.
CeilDiv8(n) == (n + 7) \div 8

\* n >> 3 for a non-negative integer n.
Shr3(n) == n \div 8

\* n & 7 for a non-negative integer n.
And7(n) == n % 8

\* input[i]: the byte at index i, or undefined past the end; every use of it
\* in the code coerces undefined to 0 (undefined >> s is 0, and a Buffer
\* stores undefined as 0).
ReadByte(buf, i) == IF i >= 0 /\ i < Len(buf) THEN buf[i + 1] ELSE 0

\* (v >> s) & 1
BitOf(v, s) == (v \div (2 ^ s)) % 2

\* output[i] |= 1 << s; a write past the end of a Buffer is dropped.
OrBit(buf, i, s) ==
    IF i >= 0 /\ i < Len(buf)
    THEN [buf EXCEPT ![i + 1] = IF BitOf(@, s) = 1 THEN @ ELSE @ + 2 ^ s]
    ELSE buf

\* output[i] = v; a write past the end of a Buffer is dropped.
WriteByte(buf, i, v) ==
    IF i >= 0 /\ i < Len(buf) THEN [buf EXCEPT ![i + 1] = v] ELSE buf

(***************************************************************************)
(* The four variants share one shape: an output buffer allocated at its    *)
(* final size, then for (x = 0; x < width; x++) for (y = 0; y < height;    *)
(* y++) a body. A loop state st is the record of the function's locals:    *)
(* x, y, output and, in the packed variant, outputBitIndex.                *)
(***************************************************************************)

(***************************************************************************)
(* transpose1BitAligned (index.ts 184-210)                                 *)
(***************************************************************************)

\* Line 191.
AlignedOutputSize(w, h) == w * Shr3(h)

\* AlignedBody with the output rows laid out by the input stride.
AlignedBodyOutputStride(in, w, h, st) ==
    LET widthBytes == Shr3(w)
        inputByteCol == Shr3(st.x)
        inputBitShift == 7 - And7(st.x)
        inputIndex == st.y * widthBytes + inputByteCol
        bit == BitOf(ReadByte(in, inputIndex), inputBitShift)
        outputRowStart == st.x * widthBytes
        outputByteIndex == outputRowStart + Shr3(st.y)
        outputBitShift == 7 - And7(st.y)
    IN  IF bit = 1
        THEN [st EXCEPT !.output = OrBit(@, outputByteIndex, outputBitShift)]
        ELSE st

\* AlignedBody writing the output bits least-significant first.
AlignedBodyLsbFirst(in, w, h, st) ==
    LET widthBytes == Shr3(w)
        heightBytes == Shr3(h)
        inputByteCol == Shr3(st.x)
        inputBitShift == 7 - And7(st.x)
        inputIndex == st.y * widthBytes + inputByteCol
        bit == BitOf(ReadByte(in, inputIndex), inputBitShift)
        outputRowStart == st.x * heightBytes
        outputByteIndex == outputRowStart + Shr3(st.y)
        outputBitShift == And7(st.y)
    IN  IF bit = 1
        THEN [st EXCEPT !.output = OrBit(@, outputByteIndex, outputBitShift)]
        ELSE st

\* The body of the inner loop, lines 198-206 (widthBytes and heightBytes
\* from lines 189-190, inputByteCol and inputBitShift from lines 194-195).
AlignedBody(in, w, h, st) ==
    LET widthBytes == Shr3(w)
        heightBytes == Shr3(h)
        inputByteCol == Shr3(st.x)
        inputBitShift == 7 - And7(st.x)
        inputIndex == st.y * widthBytes + inputByteCol
        bit == BitOf(ReadByte(in, inputIndex), inputBitShift)
        outputRowStart == st.x * heightBytes
        outputByteIndex == outputRowStart + Shr3(st.y)
        outputBitShift == 7 - And7(st.y)
    IN  IF bit = 1
        THEN [st EXCEPT !.output = OrBit(@, outputByteIndex, outputBitShift)]
        ELSE st

RECURSIVE AlignedYLoop(_, _, _, _)
\* for (...; y < height; y++), lines 197-207, from st.y on.
AlignedYLoop(in, w, h, st) ==
    IF st.y < h
    THEN AlignedYLoop(in, w, h, [AlignedBody(in, w, h, st) EXCEPT !.y = @ + 1])
    ELSE st

RECURSIVE AlignedXLoop(_, _, _, _)
\* for (...; x < width; x++), lines 193-208, from st.x on.
AlignedXLoop(in, w, h, st) ==
    IF st.x < w
    THEN AlignedXLoop(in, w, h,
            [AlignedYLoop(in, w, h, [st EXCEPT !.y = 0]) EXCEPT !.x = @ + 1])
    ELSE st

transpose1BitAligned(in, w, h) ==
    AlignedXLoop(in, w, h,
        [x |-> 0, y |-> 0, output |-> BufferAlloc(AlignedOutputSize(w, h))]).output

(***************************************************************************)
(* transpose1BitGeneric (index.ts 215-243)                                 *)
(***************************************************************************)

\* Lines 221-222.
GenericOutputSize(w, h) == w * CeilDiv8(h)

\* GenericBody clamping an index past the end to the last byte instead of
\* skipping it.
GenericBodyClamped(in, w, h, st) ==
    LET inputStride == CeilDiv8(w)
        outputStride == CeilDiv8(h)
        inputByteCol == Shr3(st.x)
        inputBitShift == 7 - And7(st.x)
        inputIndex == st.y * inputStride + inputByteCol
        clamped == IF inputIndex < Len(in) THEN inputIndex ELSE Len(in) - 1
        bit == BitOf(ReadByte(in, clamped), inputBitShift)
        outputRowStart == st.x * outputStride
        outputByteIndex == outputRowStart + Shr3(st.y)
        outputBitShift == 7 - And7(st.y)
    IN  IF bit = 1
        THEN [st EXCEPT !.output = OrBit(@, outputByteIndex, outputBitShift)]
        ELSE st

\* The body of the inner loop, lines 229-239 (inputStride and outputStride
\* from lines 220-221, inputByteCol and inputBitShift from lines 225-226).
GenericBody(in, w, h, st) ==
    LET inputStride == CeilDiv8(w)
        outputStride == CeilDiv8(h)
        inputByteCol == Shr3(st.x)
        inputBitShift == 7 - And7(st.x)
        inputIndex == st.y * inputStride + inputByteCol
        bit == BitOf(ReadByte(in, inputIndex), inputBitShift)
        outputRowStart == st.x * outputStride
        outputByteIndex == outputRowStart + Shr3(st.y)
        outputBitShift == 7 - And7(st.y)
    IN  IF inputIndex < Len(in) /\ bit = 1
        THEN [st EXCEPT !.output = OrBit(@, outputByteIndex, outputBitShift)]
        ELSE st

RECURSIVE GenericYLoop(_, _, _, _)
\* for (...; y < height; y++), lines 228-240, from st.y on.
GenericYLoop(in, w, h, st) ==
    IF st.y < h
    THEN GenericYLoop(in, w, h, [GenericBody(in, w, h, st) EXCEPT !.y = @ + 1])
    ELSE st

RECURSIVE GenericXLoop(_, _, _, _)
\* for (...; x < width; x++), lines 224-241, from st.x on.
GenericXLoop(in, w, h, st) ==
    IF st.x < w
    THEN GenericXLoop(in, w, h,
            [GenericYLoop(in, w, h, [st EXCEPT !.y = 0]) EXCEPT !.x = @ + 1])
    ELSE st

transpose1BitGeneric(in, w, h) ==
    GenericXLoop(in, w, h,
        [x |-> 0, y |-> 0, output |-> BufferAlloc(GenericOutputSize(w, h))]).output

(***************************************************************************)
(* transpose1BitPacked (index.ts 249-282)                                  *)
(***************************************************************************)

\* PackedOutputSize rounding down instead of up.
PackedOutputSizeFloor(w, h) == Shr3(w * h)

\* Lines 256-257.
PackedOutputSize(w, h) == CeilDiv8(w * h)

\* PackedBody advancing the cursor only when it writes a bit.
PackedBodyCursorOnSet(in, w, h, st) ==
    LET inputStride == CeilDiv8(w)
        inputByteCol == Shr3(st.x)
        inputBitShift == 7 - And7(st.x)
        inputIndex == st.y * inputStride + inputByteCol
        bit == BitOf(ReadByte(in, inputIndex), inputBitShift)
        outputByteIdx == Shr3(st.outputBitIndex)
        outputBitOff == 7 - And7(st.outputBitIndex)
    IN  IF inputIndex < Len(in) /\ bit = 1
        THEN [st EXCEPT !.output = OrBit(@, outputByteIdx, outputBitOff),
                        !.outputBitIndex = @ + 1]
        ELSE st

\* The body of the inner loop, lines 267-278 (inputStride from line 254,
\* inputByteCol and inputBitShift from lines 263-264).
PackedBody(in, w, h, st) ==
    LET inputStride == CeilDiv8(w)
        inputByteCol == Shr3(st.x)
        inputBitShift == 7 - And7(st.x)
        inputIndex == st.y * inputStride + inputByteCol
        bit == BitOf(ReadByte(in, inputIndex), inputBitShift)
        outputByteIdx == Shr3(st.outputBitIndex)
        outputBitOff == 7 - And7(st.outputBitIndex)
    IN  [st EXCEPT !.output = IF inputIndex < Len(in) /\ bit = 1
                             THEN OrBit(@, outputByteIdx, outputBitOff)
                             ELSE @,
                   !.outputBitIndex = @ + 1]

\* Lines 254-260: the locals before the loops.
PackedStart(w, h) ==
    [x |-> 0, y |-> 0, output |-> BufferAlloc(PackedOutputSize(w, h)),
     outputBitIndex |-> 0]

RECURSIVE PackedYLoop(_, _, _, _)
\* for (...; y < height; y++), lines 266-279, from st.y on.
PackedYLoop(in, w, h, st) ==
    IF st.y < h
    THEN PackedYLoop(in, w, h, [PackedBody(in, w, h, st) EXCEPT !.y = @ + 1])
    ELSE st

RECURSIVE PackedXLoop(_, _, _, _)
\* for (...; x < width; x++), lines 262-280, from st.x on.
PackedXLoop(in, w, h, st) ==
    IF st.x < w
    THEN PackedXLoop(in, w, h,
            [PackedYLoop(in, w, h, [st EXCEPT !.y = 0]) EXCEPT !.x = @ + 1])
    ELSE st

transpose1BitPacked(in, w, h) ==
    PackedXLoop(in, w, h, PackedStart(w, h)).output

(***************************************************************************)
(* transpose8Bit (index.ts 287-305)                                        *)
(***************************************************************************)

\* Line 292.
ByteOutputSize(w, h) == w * h

\* ByteBody with the output indexed by the width instead of the height.
ByteBodyOutputStride(in, w, h, st) ==
    LET inputIndex == st.y * w + st.x
        outputIndex == st.x * w + st.y
    IN  [st EXCEPT !.output = WriteByte(@, outputIndex, ReadByte(in, inputIndex))]

\* ByteBody with the input indexed by the height instead of the width.
ByteBodyInputStride(in, w, h, st) ==
    LET inputIndex == st.y * h + st.x
        outputIndex == st.x * h + st.y
    IN  [st EXCEPT !.output = WriteByte(@, outputIndex, ReadByte(in, inputIndex))]

\* The body of the inner loop, lines 297-301.
ByteBody(in, w, h, st) ==
    LET inputIndex == st.y * w + st.x
        outputIndex == st.x * h + st.y
    IN  [st EXCEPT !.output = WriteByte(@, outputIndex, ReadByte(in, inputIndex))]

RECURSIVE ByteYLoop(_, _, _, _)
\* for (...; y < height; y++), lines 295-302, from st.y on.
ByteYLoop(in, w, h, st) ==
    IF st.y < h
    THEN ByteYLoop(in, w, h, [ByteBody(in, w, h, st) EXCEPT !.y = @ + 1])
    ELSE st

RECURSIVE ByteXLoop(_, _, _, _)
\* for (...; x < width; x++), lines 294-303, from st.x on.
ByteXLoop(in, w, h, st) ==
    IF st.x < w
    THEN ByteXLoop(in, w, h,
            [ByteYLoop(in, w, h, [st EXCEPT !.y = 0]) EXCEPT !.x = @ + 1])
    ELSE st

transpose8Bit(in, w, h) ==
    ByteXLoop(in, w, h,
        [x |-> 0, y |-> 0, output |-> BufferAlloc(ByteOutputSize(w, h))]).output

(***************************************************************************)
(* transpose, the dispatcher (index.ts 154-179)                            *)
(*                                                                         *)
(* options is [hasBpp, bpp, hasPacked, packed]: hasBpp = FALSE is an       *)
(* options object without bpp, and likewise for packed.                    *)
(***************************************************************************)

\* options.bpp || 1: undefined and 0 are falsy.
EffectiveBpp(opts) == IF opts.hasBpp /\ opts.bpp # 0 THEN opts.bpp ELSE 1

\* options.packed || false
EffectivePacked(opts) == opts.hasPacked /\ opts.packed

\* Selected with the byte-alignment test made before the packed test.
SelectedAlignedFirst(w, h, opts) ==
    LET bpp == EffectiveBpp(opts)
        packed == EffectivePacked(opts)
    IN  IF bpp = 1
        THEN IF w % 8 = 0 /\ h % 8 = 0 THEN "transpose1BitAligned"
             ELSE IF packed THEN "transpose1BitPacked"
             ELSE "transpose1BitGeneric"
        ELSE IF bpp = 8 THEN "transpose8Bit"
        ELSE "throw"

\* The function the dispatcher calls, "throw" when it throws.
Selected(w, h, opts) ==
    LET bpp == EffectiveBpp(opts)
        packed == EffectivePacked(opts)
    IN  IF bpp = 1
        THEN IF packed THEN "transpose1BitPacked"
             ELSE IF w % 8 = 0 /\ h % 8 = 0 THEN "transpose1BitAligned"
             ELSE "transpose1BitGeneric"
        ELSE IF bpp = 8 THEN "transpose8Bit"
        ELSE "throw"

NoResult == [kind |-> "none", buffer |-> <<>>, named |-> 0]
Returned(buf) == [kind |-> "buffer", buffer |-> buf, named |-> 0]
\* throw new Error(`Unsupported bpp: ${bpp}. ...`): the message names bpp.
Thrown(bpp) == [kind |-> "error", buffer |-> <<>>, named |-> bpp]

transpose(in, w, h, opts) ==
    LET sel == Selected(w, h, opts)
    IN  CASE sel = "transpose1BitPacked" -> Returned(transpose1BitPacked(in, w, h))
          [] sel = "transpose1BitAligned" -> Returned(transpose1BitAligned(in, w, h))
          [] sel = "transpose1BitGeneric" -> Returned(transpose1BitGeneric(in, w, h))
          [] sel = "transpose8Bit" -> Returned(transpose8Bit(in, w, h))
          [] OTHER -> Thrown(EffectiveBpp(opts))

(***************************************************************************)
(* The caller: one call of transpose, then a second call on the returned   *)
(* buffer with the dimensions swapped.                                     *)
(***************************************************************************)

\* transpose(input, width, height, options)
Call ==
    /\ phase = "ready"
    /\ called' = Selected(width, height, options)
    /\ result' = transpose(input, width, height, options)
    /\ phase' = "done"
    /\ UNCHANGED <<input, width, height, options, first,
                   x, y, outputBitIndex, output>>

\* transpose(first result, height, width, options)
CallBack ==
    /\ phase = "done"
    /\ result.kind = "buffer"
    /\ first' = result.buffer
    /\ called' = Selected(height, width, options)
    /\ result' = transpose(result.buffer, height, width, options)
    /\ phase' = "back"
    /\ UNCHANGED <<input, width, height, options,
                   x, y, outputBitIndex, output>>

Next == Call \/ CallBack

(***************************************************************************)
(* transpose1BitPacked one loop step at a time, its locals in x, y,        *)
(* outputBitIndex and output.                                              *)
(***************************************************************************)

PackedLocals == [x |-> x, y |-> y, output |-> output,
                 outputBitIndex |-> outputBitIndex]

\* The dispatcher calls transpose1BitPacked: lines 160-165 and 254-262.
PackedEnter ==
    /\ phase = "ready"
    /\ Selected(width, height, options) = "transpose1BitPacked"
    /\ called' = "transpose1BitPacked"
    /\ phase' = "loop"
    /\ x' = PackedStart(width, height).x
    /\ y' = PackedStart(width, height).y
    /\ output' = PackedStart(width, height).output
    /\ outputBitIndex' = PackedStart(width, height).outputBitIndex
    /\ UNCHANGED <<input, width, height, options, result, first>>

\* One pass of the inner loop: the body, then y++.
PackedStep ==
    /\ phase = "loop"
    /\ x < width
    /\ y < height
    /\ LET st == PackedBody(input, width, height, PackedLocals)
       IN  /\ output' = st.output
           /\ outputBitIndex' = st.outputBitIndex
           /\ x' = st.x
           /\ y' = st.y + 1
    /\ UNCHANGED <<input, width, height, options, phase, called, result, first>>

\* The inner loop ends: x++, and y = 0 for the next column.
PackedNextColumn ==
    /\ phase = "loop"
    /\ x < width
    /\ y >= height
    /\ x' = x + 1
    /\ y' = 0
    /\ UNCHANGED <<input, width, height, options, phase, called, result, first,
                   output, outputBitIndex>>

\* The outer loop ends: return output.
PackedReturn ==
    /\ phase = "loop"
    /\ x >= width
    /\ result' = Returned(output)
    /\ phase' = "done"
    /\ UNCHANGED <<input, width, height, options, called, first,
                   x, y, output, outputBitIndex>>

NextPacked == PackedEnter \/ PackedStep \/ PackedNextColumn \/ PackedReturn

\* The state before the first call, the arguments left to each specification.
Ready ==
    /\ phase = "ready"
    /\ called = "none"
    /\ result = NoResult
    /\ first = <<>>
    /\ x = 0
    /\ y = 0
    /\ outputBitIndex = 0
    /\ output = <<>>

\* An options object with bpp and packed as given.
Options(hasBpp, bpp, hasPacked, packed) ==
    [hasBpp |-> hasBpp, bpp |-> IF hasBpp THEN bpp ELSE 0,
     hasPacked |-> hasPacked, packed |-> hasPacked /\ packed]

\* The three ways to give packed: absent, false, true.
PackedChoices == {<<FALSE, FALSE>>, <<TRUE, FALSE>>, <<TRUE, TRUE>>}

(***************************************************************************)
(* SpecBytes: 8-bit matrices of at most MaxCells elements, every input of  *)
(* exactly width * height bytes over ByteVals, and the 2 x 3 example.      *)
(***************************************************************************)

MaxCells == 6

ByteVals == {0, 1, 255}

Example8Bit == <<1, 2, 3, 4, 5, 6>>

InitBytes ==
    /\ Ready
    /\ width \in 1..MaxCells
    /\ height \in 1..MaxCells
    /\ width * height <= MaxCells
    /\ input \in [1..(width * height) -> ByteVals]
                 \cup (IF width = 2 /\ height = 3 THEN {Example8Bit} ELSE {})
    /\ \E p \in PackedChoices : options = Options(TRUE, 8, p[1], p[2])

SpecBytes == InitBytes /\ [][Next]_vars

\* C1: with bpp 8 and an input of exactly width * height bytes, the returned
\* buffer has width * height bytes and output[x * height + y] =
\* input[y * width + x] for every x < width and y < height; in particular
\* [1,2,3,4,5,6] with width 2 and height 3 gives [1,3,5,2,4,6].
C1_ByteTranspose ==
    (phase = "done" /\ options.hasBpp /\ options.bpp = 8
        /\ Len(input) = width * height)
    => /\ result.kind = "buffer"
       /\ Len(result.buffer) = width * height
       /\ \A cx \in 0..(width - 1), cy \in 0..(height - 1) :
            result.buffer[cx * height + cy + 1] = input[cy * width + cx + 1]
       /\ (input = Example8Bit /\ width = 2 /\ height = 3)
            => result.buffer = <<1, 3, 5, 2, 4, 6>>

C1_Witness ==
    /\ phase = "done"
    /\ input = Example8Bit
    /\ width = 2
    /\ height = 3
    /\ options.bpp = 8
    /\ result.buffer = <<1, 3, 5, 2, 4, 6>>

\* C6: with bpp 8 and an input of exactly width * height bytes, transposing
\* the result back with the dimensions swapped returns the input byte for
\* byte.
C6_ByteRoundTrip ==
    (phase = "back" /\ options.hasBpp /\ options.bpp = 8
        /\ Len(input) = width * height)
    => /\ result.kind = "buffer"
       /\ result.buffer = input

C6_Witness ==
    /\ phase = "back"
    /\ options.bpp = 8
    /\ width = 3
    /\ height = 2
    /\ input = <<0, 1, 255, 1, 0, 0>>
    /\ first = <<0, 1, 1, 0, 255, 0>>
    /\ result.buffer = input

(***************************************************************************)
(* Spec: the dispatcher on every width and height up to MaxDim, every      *)
(* options object with bpp absent or in -1..MaxBpp and packed absent,      *)
(* false or true, and buffers of every length up to MaxLen (too short,     *)
(* exact and too long) filled with one of four patterns.                   *)
(***************************************************************************)

MaxDim == 9

MaxBpp == 9

MaxLen == 10

BppVals == (-1)..MaxBpp

\* The n-byte buffers of the specification: zeros, ones, a diagonal of
\* bits, a count.
Patterns(n) ==
    { [i \in 1..n |-> 0],
      [i \in 1..n |-> 255],
      [i \in 1..n |-> 2 ^ (7 - ((i - 1) % 8))],
      [i \in 1..n |-> i] }

Init ==
    /\ Ready
    /\ width \in 1..MaxDim
    /\ height \in 1..MaxDim
    /\ \E n \in 0..MaxLen : input \in Patterns(n)
    /\ \E p \in PackedChoices :
         \/ options = Options(FALSE, 0, p[1], p[2])
         \/ \E b \in BppVals : options = Options(TRUE, b, p[1], p[2])

Spec == Init /\ [][Next]_vars

\* Math.ceil(n / 8), from its definition: the least k with 8 * k >= n.
CeilEighth(n) == IF n % 8 = 0 THEN n \div 8 ELSE (n \div 8) + 1

\* C3: a call with a supplied bpp that is an integer other than 1 and 8
\* (0 and 3 included) throws the unsupported-bpp error naming that value
\* and returns no buffer.
C3_UnsupportedRejected ==
    (phase = "done" /\ options.hasBpp /\ options.bpp \notin {1, 8})
    => /\ result.kind = "error"
       /\ result.named = options.bpp
       /\ result.buffer = <<>>

\* C4: the call returns the result of the variant chosen by the rules, in
\* order: (1) bpp 1 and packed true: packed, also when width and height are
\* multiples of 8; (2) bpp 1, not packed, width and height multiples of 8:
\* byte-aligned; (3) bpp 1 otherwise: generic; (4) bpp 8: 8-bit, whatever
\* packed is. An absent bpp is 1 and an absent packed is false.
C4_SelectionPolicy ==
    phase = "done" =>
        LET one == (~options.hasBpp) \/ options.bpp = 1
            eight == options.hasBpp /\ options.bpp = 8
            pk == options.hasPacked /\ options.packed
            mult == width % 8 = 0 /\ height % 8 = 0
        IN  /\ (one /\ pk) =>
                /\ called = "transpose1BitPacked"
                /\ result = Returned(transpose1BitPacked(input, width, height))
            /\ (one /\ ~pk /\ mult) =>
                /\ called = "transpose1BitAligned"
                /\ result = Returned(transpose1BitAligned(input, width, height))
            /\ (one /\ ~pk /\ ~mult) =>
                /\ called = "transpose1BitGeneric"
                /\ result = Returned(transpose1BitGeneric(input, width, height))
            /\ eight =>
                /\ called = "transpose8Bit"
                /\ result = Returned(transpose8Bit(input, width, height))

C4_Witness ==
    /\ phase = "done"
    /\ width = 8
    /\ height = 8
    /\ options = Options(FALSE, 0, TRUE, TRUE)
    /\ called = "transpose1BitPacked"
    /\ Len(input) = 8
    /\ input[1] = 1
    /\ result.kind = "buffer"

\* C5: the length of the returned buffer is width * (height / 8) for the
\* byte-aligned variant, width * ceil(height / 8) for the generic variant,
\* ceil(width * height / 8) for the packed variant and width * height for
\* the 8-bit variant, whatever the input's contents and length.
C5_OutputSize ==
    (phase = "done" /\ called # "throw") =>
        /\ result.kind = "buffer"
        /\ called = "transpose1BitAligned" =>
             /\ height % 8 = 0
             /\ Len(result.buffer) = width * (height \div 8)
        /\ called = "transpose1BitGeneric" =>
             Len(result.buffer) = width * CeilEighth(height)
        /\ called = "transpose1BitPacked" =>
             Len(result.buffer) = CeilEighth(width * height)
        /\ called = "transpose8Bit" =>
             Len(result.buffer) = width * height

C5_Witness ==
    /\ phase = "done"
    /\ called = "transpose1BitPacked"
    /\ width = 3
    /\ height = 3
    /\ Len(input) = 0
    /\ Len(result.buffer) = 2

(***************************************************************************)
(* Bitmaps as sets of bit positions. A position is the index of a bit in   *)
(* the buffer counted from the most significant bit of byte 0.             *)
(***************************************************************************)

\* The byte at index i of the buffer whose set bits are at the positions S.
ByteOfBits(S, i) ==
    LET T == {k \in 0..7 : (8 * i + k) \in S}
    IN  (IF 0 \in T THEN 128 ELSE 0) + (IF 1 \in T THEN 64 ELSE 0)
        + (IF 2 \in T THEN 32 ELSE 0) + (IF 3 \in T THEN 16 ELSE 0)
        + (IF 4 \in T THEN 8 ELSE 0) + (IF 5 \in T THEN 4 ELSE 0)
        + (IF 6 \in T THEN 2 ELSE 0) + (IF 7 \in T THEN 1 ELSE 0)

\* The n-byte buffer whose set bits are at the positions S.
BitsBuffer(n, S) == [i \in 1..n |-> ByteOfBits(S, i - 1)]

\* The bit at position b of a buffer, 0 past its end.
BitAt(buf, b) ==
    IF b \div 8 < Len(buf) THEN (buf[(b \div 8) + 1] \div (2 ^ (7 - (b % 8)))) % 2
    ELSE 0

\* The position of column c of row r in rows of stride bytes.
RowPos(stride, r, c) == 8 * stride * r + c

(***************************************************************************)
(* SpecBit: 1-bit bitmaps of every width and height up to MaxBitDim, in    *)
(* rows of ceil(width / 8) bytes, with exactly one bit set, at any row and *)
(* column; bpp is 1 or absent, packed is absent.                           *)
(***************************************************************************)

MaxBitDim == 16

InitBit ==
    /\ Ready
    /\ width \in 1..MaxBitDim
    /\ height \in 1..MaxBitDim
    /\ \E x0 \in 0..(width - 1), y0 \in 0..(height - 1) :
         input = BitsBuffer(height * CeilEighth(width),
                            {RowPos(CeilEighth(width), y0, x0)})
    /\ options \in {Options(TRUE, 1, FALSE, FALSE), Options(FALSE, 0, FALSE, FALSE)}

SpecBit == InitBit /\ [][Next]_vars

\* C2: when the input, in rows of ceil(width / 8) bytes, has exactly one bit
\* set, at row y0 and column x0, the output of the non-packed 1-bit
\* transpose has the bit of byte x0 * ceil(height / 8) + floor(y0 / 8) at
\* shift 7 - (y0 mod 8) set and every other bit 0, with the byte-aligned
\* variant as with the generic one.
C2_BitPosition ==
    phase = "done" =>
        \A x0 \in 0..(width - 1), y0 \in 0..(height - 1) :
            (/\ BitAt(input, RowPos(CeilEighth(width), y0, x0)) = 1
             /\ \A b \in 0..(8 * Len(input) - 1) :
                  b # RowPos(CeilEighth(width), y0, x0) => BitAt(input, b) = 0)
            => /\ result.kind = "buffer"
               /\ called = (IF width % 8 = 0 /\ height % 8 = 0
                            THEN "transpose1BitAligned"
                            ELSE "transpose1BitGeneric")
               /\ \A j \in 0..(Len(result.buffer) - 1), s \in 0..7 :
                    ((result.buffer[j + 1] \div (2 ^ s)) % 2 = 1)
                    <=> (j = x0 * CeilEighth(height) + (y0 \div 8)
                         /\ s = 7 - (y0 % 8))
               /\ x0 * CeilEighth(height) + (y0 \div 8) < Len(result.buffer)

C2_Witness ==
    /\ phase = "done"
    /\ called = "transpose1BitAligned"
    /\ width = 8
    /\ height = 16
    /\ input = BitsBuffer(16, {RowPos(1, 11, 5)})
    /\ result.buffer = BitsBuffer(16, {RowPos(2, 5, 11)})

C2_WitnessGeneric ==
    /\ phase = "done"
    /\ called = "transpose1BitGeneric"
    /\ width = 10
    /\ height = 3
    /\ input = BitsBuffer(6, {RowPos(2, 2, 9)})
    /\ result.buffer = BitsBuffer(10, {RowPos(1, 9, 2)})

(***************************************************************************)
(* SpecSym: square byte-aligned 1-bit bitmaps of 8 * k rows for k up to    *)
(* MaxBlocks: the symmetric bitmaps made of one cell with its mirror image *)
(* and one diagonal cell, the bitmaps with a single bit (symmetric only on *)
(* the diagonal), and the diagonal.                                        *)
(***************************************************************************)

MaxBlocks == 2

\* The bitmap positions of the cells in C (pairs <<column, row>>) of an
\* n x n bitmap.
Cells(n, C) == {RowPos(n \div 8, c[2], c[1]) : c \in C}

Mirror(C) == C \cup {<<c[2], c[1]>> : c \in C}

Diagonal(n) == BitsBuffer((n * n) \div 8, Cells(n, {<<i, i>> : i \in 0..(n - 1)}))

InitSym ==
    /\ Ready
    /\ \E k \in 1..MaxBlocks : width = 8 * k
    /\ height = width
    /\ \/ \E p \in {c \in (0..(width - 1)) \X (0..(width - 1)) : c[1] <= c[2]},
             d \in 0..(width - 1) :
            input = BitsBuffer((width * width) \div 8,
                               Cells(width, Mirror({p, <<d, d>>})))
       \/ \E p \in (0..(width - 1)) \X (0..(width - 1)) :
            input = BitsBuffer((width * width) \div 8, Cells(width, {p}))
       \/ input = Diagonal(width)
    /\ options = Options(TRUE, 1, FALSE, FALSE)

SpecSym == InitSym /\ [][Next]_vars

\* The bit of column c, row r, of an n x n byte-aligned bitmap equals the
\* bit of column r, row c, for every r and c.
IsSymmetric(buf, n) ==
    \A r \in 0..(n - 1), c \in 0..(n - 1) :
        BitAt(buf, RowPos(n \div 8, r, c)) = BitAt(buf, RowPos(n \div 8, c, r))

\* C7: for n a multiple of 8 and an n x n byte-aligned 1-bit input of
\* n * n / 8 bytes whose content is symmetric, transpose(input, n, n,
\* {bpp: 1}) equals the input byte for byte; the 8 x 8 diagonal
\* [0x80,0x40,0x20,0x10,0x08,0x04,0x02,0x01] transposes to itself.
C7_SymmetricIdentity ==
    (/\ phase = "done"
     /\ width = height
     /\ width % 8 = 0
     /\ Len(input) = (width * width) \div 8
     /\ IsSymmetric(input, width))
    => /\ result.kind = "buffer"
       /\ result.buffer = input

C7_Witness ==
    /\ phase = "done"
    /\ width = 8
    /\ height = 8
    /\ input = <<128, 64, 32, 16, 8, 4, 2, 1>>
    /\ called = "transpose1BitAligned"
    /\ result.buffer = <<128, 64, 32, 16, 8, 4, 2, 1>>

(***************************************************************************)
(* SpecPackedLoop: the packed variant step by step, on every width up to   *)
(* MaxPackedWidth and height up to MaxPackedHeight, with full-size inputs  *)
(* (height * ceil(width / 8) bytes, pad bits included) that have no bit,   *)
(* one bit, all bits but one, or all bits set.                             *)
(***************************************************************************)

MaxPackedWidth == 10

MaxPackedHeight == 9

\* Of n bits: none, each one alone, all but each one, all.
BitFamily(n) ==
    {{}, 0..(n - 1)} \cup {{b} : b \in 0..(n - 1)}
                     \cup {(0..(n - 1)) \ {b} : b \in 0..(n - 1)}

FullSize(w, h) == h * CeilEighth(w)

InitPackedLoop ==
    /\ Ready
    /\ width \in 1..MaxPackedWidth
    /\ height \in 1..MaxPackedHeight
    /\ \E S \in BitFamily(8 * FullSize(width, height)) :
         input = BitsBuffer(FullSize(width, height), S)
    /\ options = Options(TRUE, 1, TRUE, TRUE)

SpecPackedLoop == InitPackedLoop /\ [][NextPacked]_vars

\* The generic variant's output g with the pad bits of each output row
\* removed: the rows of h bits one after the other.
WithoutRowPadding(g, w, h) ==
    BitsBuffer(CeilEighth(w * h),
               {b \in 0..(w * h - 1) :
                    BitAt(g, RowPos(CeilEighth(h), b \div h, b % h)) = 1})

MaxStrideDim == 17

InitStride ==
    /\ Ready
    /\ width \in 1..MaxStrideDim
    /\ height \in 1..MaxStrideDim
    /\ \E n \in 0..FullSize(width, height) : input \in Patterns(n)
    /\ options \in {Options(TRUE, 1, TRUE, TRUE), Options(TRUE, 1, FALSE, FALSE)}

NextCall == Call

SpecStride == InitStride /\ [][NextCall]_vars

\* C8: with bpp 1 and packed true the input is read as a tightly packed
\* bitmap, element (column x, row y) being the bit at position
\* y * width + x, and the output is tightly packed: its bit at position
\* x * height + y equals that input bit, for every x < width, y < height.
C8_PackedBothSides ==
    (/\ phase = "done"
     /\ called = "transpose1BitPacked"
     /\ Len(input) >= CeilEighth(width * height))
    => /\ result.kind = "buffer"
       /\ \A cx \in 0..(width - 1), cy \in 0..(height - 1) :
            BitAt(result.buffer, cx * height + cy) = BitAt(input, cy * width + cx)

\* The input followed by zero bytes up to n bytes.
ZeroExtended(buf, n) == [i \in 1..n |-> IF i <= Len(buf) THEN buf[i] ELSE 0]

\* C10: the generic and the packed variant, given a buffer shorter than
\* height * ceil(width / 8) bytes (the empty one included), return without
\* error exactly what they return for that buffer extended with zero bytes
\* to height * ceil(width / 8) bytes.
C10_UndersizedInput ==
    (/\ phase = "done"
     /\ called \in {"transpose1BitGeneric", "transpose1BitPacked"}
     /\ Len(input) < FullSize(width, height))
    => /\ result.kind = "buffer"
       /\ called = "transpose1BitGeneric" =>
            result.buffer = transpose1BitGeneric(
                ZeroExtended(input, FullSize(width, height)), width, height)
       /\ called = "transpose1BitPacked" =>
            result.buffer = transpose1BitPacked(
                ZeroExtended(input, FullSize(width, height)), width, height)

C10_Witness ==
    /\ phase = "done"
    /\ called = "transpose1BitGeneric"
    /\ width = 9
    /\ height = 3
    /\ input = <<255, 255, 255>>
    /\ result.buffer = <<192, 192, 192, 192, 192, 192, 192, 192, 128>>

====
